---- MODULE Spec2Model ----
(***************************************************************************)
(* State-machine model of the InvoiceList component                        *)
(* (src/gm-car-ac-service-billing/src/components/InvoiceList.tsx).         *)
(*                                                                         *)
(* Strings that the code inspects character by character (vehicleNumber,   *)
(* searchVehicle) are tuples of one-character strings.  Instants are       *)
(* minutes since 2024-01-01T00:00Z.                                         *)
(***************************************************************************)
EXTENDS Integers, Sequences, FiniteSets, TLC

VARIABLES
  store,             \* localStorage entry 'invoices': Absent or Stored(sequence)
  invoices,          \* useState: master collection
  filteredInvoices,  \* useState: filtered view
  invoiceToDelete,   \* useState: pending delete id, or NULL
  searchVehicle,     \* useState: vehicle-number input
  dateRange,         \* useState: [from, to], each an instant or UNDEFINED
  phase,             \* "initial" (first render done, effects not yet run),
                     \* "mounted", or "crashed" (a render threw)
  effectPending,     \* the refilter effect's dependencies changed in the last commit
  inflight,          \* awaits of navigator.share not yet settled
  event,             \* the handler or callback that ran in the last step
  calls              \* calls to collaborators made by the last step, in order

vars == <<store, invoices, filteredInvoices, invoiceToDelete, searchVehicle,
          dateRange, phase, effectPending, inflight, event, calls>>

\* ------------------------------------------------------------------ bounds

MaxInvoices == 3
MaxInFlight == 2

\* ------------------------------------------------------------- data model

NULL == "null"
UNDEFINED == [kind |-> "undefined"]

\* A Date object: an instant, or an Invalid Date (time NaN).
DateAt(t) == [kind |-> "date", time |-> t]
InvalidDate == [kind |-> "invalid"]

\* The localStorage entry: absent, or holding the serialised array.
Absent == [present |-> FALSE]
Stored(v) == [present |-> TRUE, value |-> v]

\* Date strings of an invoice: a calendar date "2024-MM-DD", an ISO week date
\* "2024-Www-D", or text that is no date.
DateJan05 == [form |-> "calendar", m |-> 1, d |-> 5]
DateW06D6 == [form |-> "week", w |-> 6, d |-> 6]
DateGarbage == [form |-> "text"]

Invoice(id, date, phone, vehicle) ==
  [id |-> id, date |-> date, customerPhone |-> phone, vehicleNumber |-> vehicle]

InvoiceUniverse ==
  { Invoice("1", DateJan05, "9800000001", <<"K", "A", "1">>),
    Invoice("2", DateW06D6, "", <<"k", "a", "2">>),
    Invoice("3", DateGarbage, "9800000003", <<"K", "A", "1">>) }

RECURSIVE SeqsUpTo(_, _)
SeqsUpTo(S, n) ==
  IF n = 0 THEN {<<>>}
  ELSE LET shorter == SeqsUpTo(S, n - 1)
       IN shorter \cup {Append(s, x) : s \in shorter, x \in S}

\* What localStorage may hold when the component starts.
StoredValues == {Absent} \cup {Stored(v) : v \in SeqsUpTo(InvoiceUniverse, MaxInvoices)}

\* What the user can type into the vehicle input.
SearchInputs == { <<>>, <<" ">>, <<" ", "A", "1", " ">> }

\* ------------------------------------------------------------------ dates

\* The local time zone's offset east of UTC, in minutes (IST).
TzOffsetMinutes == 5 * 60 + 30

DaysBeforeMonth(m) == IF m = 1 THEN 0 ELSE 31

\* Days from 2024-01-01 to the date the string names.
DayIndex(s) ==
  IF s.form = "calendar" THEN DaysBeforeMonth(s.m) + (s.d - 1)
  ELSE (s.w - 1) * 7 + (s.d - 1)      \* 2024-W01-1 is 2024-01-01

UtcMidnight(day) == DateAt(day * 24 * 60)
LocalMidnight(day) == DateAt(day * 24 * 60 - TzOffsetMinutes)

\* new Date(string): a date-only ISO string is UTC midnight; anything else here
\* is an Invalid Date.
NativeParse(s) ==
  IF s.form = "calendar" THEN UtcMidnight(DayIndex(s)) ELSE InvalidDate

\* date-fns parseISO: calendar and week dates are local midnight.
ParseISO(s) ==
  IF s.form \in {"calendar", "week"} THEN LocalMidnight(DayIndex(s)) ELSE InvalidDate

parseInvoiceDate(date) ==
  LET d == NativeParse(date) IN IF d = InvalidDate THEN ParseISO(date) ELSE d

\* date-fns comparisons: any comparison with an Invalid Date is false.
isAfter(a, b) == a.kind = "date" /\ b.kind = "date" /\ a.time > b.time
isBefore(a, b) == a.kind = "date" /\ b.kind = "date" /\ a.time < b.time
isEqual(a, b) == a.kind = "date" /\ b.kind = "date" /\ a.time = b.time

\* What the calendar can select: local midnight of a day, or nothing.
CalendarInstants == {LocalMidnight(DayIndex(DateJan05)), LocalMidnight(DayIndex(DateW06D6))}
DateRanges == [from : CalendarInstants \cup {UNDEFINED}, to : CalendarInstants \cup {UNDEFINED}]

\* ---------------------------------------------------------------- strings

toLowerCaseChar(c) ==
  CASE c = "K" -> "k" [] c = "A" -> "a" [] OTHER -> c

toLowerCase(s) == [i \in 1..Len(s) |-> toLowerCaseChar(s[i])]

RECURSIVE trimStart(_)
trimStart(s) == IF s # <<>> /\ Head(s) = " " THEN trimStart(Tail(s)) ELSE s

RECURSIVE trimEnd(_)
trimEnd(s) ==
  IF s # <<>> /\ s[Len(s)] = " " THEN trimEnd(SubSeq(s, 1, Len(s) - 1)) ELSE s

trim(s) == trimEnd(trimStart(s))

includes(s, sub) ==
  \E i \in 0..(Len(s) - Len(sub)) : SubSeq(s, i + 1, i + Len(sub)) = sub

\* ----------------------------------------------------------------- filter

vehicleMatches(invoice, search) ==
  includes(toLowerCase(invoice.vehicleNumber), toLowerCase(trim(search)))

\* Mutant: the upper boundary excluded.
inDateRangeExclusiveTo(invoice, range) ==
  LET dateObj == parseInvoiceDate(invoice.date)
  IN /\ (isAfter(dateObj, range.from) \/ isEqual(dateObj, range.from))
     /\ isBefore(dateObj, range.to)

inDateRange(invoice, range) ==
  LET dateObj == parseInvoiceDate(invoice.date)
  IN /\ (isAfter(dateObj, range.from) \/ isEqual(dateObj, range.from))
     /\ (isBefore(dateObj, range.to) \/ isEqual(dateObj, range.to))

\* The body of the refilter effect: the value it passes to setFilteredInvoices.
refilterResult(all, search, range) ==
  LET r1 == IF trim(search) # <<>>
            THEN SelectSeq(all, LAMBDA invoice : vehicleMatches(invoice, search))
            ELSE all
  IN IF range.from # UNDEFINED /\ range.to # UNDEFINED
     THEN SelectSeq(r1, LAMBDA invoice : inDateRange(invoice, range))
     ELSE r1

\* ----------------------------------------------------------------- render

\* date-fns format throws RangeError on an Invalid Date.
formatThrows(date) == parseInvoiceDate(date) = InvalidDate

\* Rendering the list formats the date of every invoice of the view.
renderThrows(view) == \E i \in 1..Len(view) : formatThrows(view[i].date)

phaseAfterRender(view) == IF renderThrows(view) THEN "crashed" ELSE "mounted"

\* ------------------------------------------------------------------ calls

Call(fn, arg) == [fn |-> fn, arg |-> arg]

\* The handler or callback of a step and its argument; arguments of different
\* types are records over different fields.
Event(op, arg) == [op |-> op, arg |-> arg]
NoArg == [none |-> TRUE]
IdArg(id) == [id |-> id]
ValueArg(value) == [value |-> value]
OutcomeArg(outcome) == [outcome |-> outcome]
TriggerArg(op) == [trigger |-> op]

\* ------------------------------------------------------------------- init

Init ==
  /\ store \in StoredValues
  /\ invoices = <<>>
  /\ filteredInvoices = <<>>
  /\ invoiceToDelete = NULL
  /\ searchVehicle = <<>>
  /\ dateRange = [from |-> UNDEFINED, to |-> UNDEFINED]
  /\ phase = "initial"
  /\ effectPending = TRUE
  /\ inflight = 0
  /\ event = Event("render", NoArg)
  /\ calls = <<>>

\* ---------------------------------------------------------------- effects

\* JSON.parse(localStorage.getItem('invoices') || '[]')
loadStored(s) == IF s.present THEN s.value ELSE <<>>

\* The effects of the first commit, in order: the load effect, then the refilter
\* effect over the first render's (empty) invoices; the last setFilteredInvoices
\* of the batch wins.
Mount ==
  /\ phase = "initial"
  /\ LET storedInvoices == loadStored(store)
         view == refilterResult(invoices, searchVehicle, dateRange)
     IN /\ invoices' = storedInvoices
        /\ filteredInvoices' = view
        /\ phase' = phaseAfterRender(view)
  /\ effectPending' = TRUE
  /\ event' = Event("mount", NoArg)
  /\ calls' = <<>>
  /\ UNCHANGED <<store, invoiceToDelete, searchVehicle, dateRange, inflight>>

\* The refilter effect, run after a commit that changed invoices, searchVehicle
\* or dateRange, and the render its setFilteredInvoices causes.
Refilter ==
  /\ phase = "mounted"
  /\ effectPending
  /\ LET result == refilterResult(invoices, searchVehicle, dateRange)
     IN /\ filteredInvoices' = result
        /\ phase' = phaseAfterRender(result)
  /\ effectPending' = FALSE
  /\ event' = Event("refilter", TriggerArg(event.op))     \* arg: what triggered the effect
  /\ calls' = <<>>
  /\ UNCHANGED <<store, invoices, invoiceToDelete, searchVehicle, dateRange, inflight>>

\* --------------------------------------------------------------- handlers

\* Handlers run from the rendered tree, after the effects of the last commit.
listEnabled == phase = "mounted" /\ ~effectPending

\* onChange of the vehicle input: setSearchVehicle(e.target.value)
SetSearchVehicle(value) ==
  /\ listEnabled
  /\ value # searchVehicle
  /\ searchVehicle' = value
  /\ effectPending' = TRUE
  /\ event' = Event("setSearchVehicle", ValueArg(value))
  /\ calls' = <<>>
  /\ UNCHANGED <<store, invoices, filteredInvoices, invoiceToDelete, dateRange,
                 phase, inflight>>

\* onSelect of the calendar: setDateRange({from, to}), a new object every time
SetDateRange(range) ==
  /\ listEnabled
  /\ dateRange' = range
  /\ effectPending' = TRUE
  /\ event' = Event("setDateRange", range)
  /\ calls' = <<>>
  /\ UNCHANGED <<store, invoices, filteredInvoices, invoiceToDelete, searchVehicle,
                 phase, inflight>>

\* Mutant: the date range is left as it was.
resetFiltersKeepsDates ==
  /\ listEnabled
  /\ searchVehicle' = <<>>
  /\ filteredInvoices' = invoices
  /\ phase' = phaseAfterRender(invoices)
  /\ effectPending' = TRUE
  /\ event' = Event("resetFilters", NoArg)
  /\ calls' = <<>>
  /\ UNCHANGED <<store, invoices, invoiceToDelete, inflight, dateRange>>

resetFilters ==
  /\ listEnabled
  /\ searchVehicle' = <<>>
  /\ dateRange' = [from |-> UNDEFINED, to |-> UNDEFINED]
  /\ filteredInvoices' = invoices
  /\ phase' = phaseAfterRender(invoices)
  /\ effectPending' = TRUE
  /\ event' = Event("resetFilters", NoArg)
  /\ calls' = <<>>
  /\ UNCHANGED <<store, invoices, invoiceToDelete, inflight>>

\* The Search button: onClick={() => {}}
SearchClick ==
  /\ listEnabled
  /\ event' = Event("search", NoArg)
  /\ calls' = <<>>
  /\ UNCHANGED <<store, invoices, filteredInvoices, invoiceToDelete, searchVehicle,
                 dateRange, phase, effectPending, inflight>>

handleEdit(id) ==
  /\ listEnabled
  /\ event' = Event("handleEdit", IdArg(id))
  /\ calls' = <<Call("navigate", id)>>
  /\ UNCHANGED <<store, invoices, filteredInvoices, invoiceToDelete, searchVehicle,
                 dateRange, phase, effectPending, inflight>>

\* generatePdf formats the invoice's date, so it throws where format does.
generatePdfThrows(invoice) == formatThrows(invoice.date)

\* generatePdf(invoice), then doc.save(...): the calls made, up to a throw.
exportCalls(invoice) ==
  IF generatePdfThrows(invoice)
  THEN <<Call("generatePdf", invoice.id)>>
  ELSE <<Call("generatePdf", invoice.id), Call("save", invoice.id)>>

downloadInvoice(invoice) ==
  /\ listEnabled
  /\ event' = Event("downloadInvoice", invoice)
  /\ calls' = exportCalls(invoice)
  /\ UNCHANGED <<store, invoices, filteredInvoices, invoiceToDelete, searchVehicle,
                 dateRange, phase, effectPending, inflight>>

\* filteredInvoices.forEach(...): a throw ends the loop.
RECURSIVE forEachExport(_)
forEachExport(view) ==
  IF view = <<>> THEN <<>>
  ELSE IF generatePdfThrows(Head(view)) THEN exportCalls(Head(view))
  ELSE exportCalls(Head(view)) \o forEachExport(Tail(view))

saveAllCalls(view) ==
  IF \E i \in 1..Len(view) : generatePdfThrows(view[i])
  THEN forEachExport(view)
  ELSE forEachExport(view) \o <<Call("toast.success", "All invoices saved as PDFs")>>

\* Mutant: the loop runs over the master collection, not the view.
saveAllMasterAsPDF ==
  /\ listEnabled
  /\ event' = Event("saveAllInvoicesAsPDF", NoArg)
  /\ calls' = saveAllCalls(invoices)
  /\ UNCHANGED <<store, invoices, filteredInvoices, invoiceToDelete, searchVehicle,
                 dateRange, phase, effectPending, inflight>>

saveAllInvoicesAsPDF ==
  /\ listEnabled
  /\ event' = Event("saveAllInvoicesAsPDF", NoArg)
  /\ calls' = saveAllCalls(filteredInvoices)
  /\ UNCHANGED <<store, invoices, filteredInvoices, invoiceToDelete, searchVehicle,
                 dateRange, phase, effectPending, inflight>>

\* ------------------------------------------------------------------ share

\* Mutant: the AbortError test is missing.
shareCatchAlwaysToasts(errorName) ==
  <<Call("console.error", errorName),
    Call("toast.error", "Sharing failed. Please try again.")>>

\* The catch block of handleShare.
shareCatch(errorName) ==
  <<Call("console.error", errorName)>> \o
  (IF errorName # "AbortError"
   THEN <<Call("toast.error", "Sharing failed. Please try again.")>>
   ELSE <<>>)

\* Mutant: the phone number is not validated.
shareCallsUnvalidated(invoice, native) ==
  IF generatePdfThrows(invoice)
  THEN <<Call("generatePdf", invoice.id)>> \o shareCatch("RangeError")
  ELSE IF native
  THEN <<Call("generatePdf", invoice.id), Call("navigator.share", invoice.id)>>
  ELSE <<Call("generatePdf", invoice.id), Call("window.open", invoice.id)>>

\* handleShare up to its first await (or to its end, when nothing is awaited).
\* `native` is whether navigator.share exists.
shareCalls(invoice, native) ==
  IF invoice.customerPhone = ""
  THEN <<Call("toast.error", "Customer phone number is missing.")>>
  ELSE IF generatePdfThrows(invoice)
  THEN <<Call("generatePdf", invoice.id)>> \o shareCatch("RangeError")
  ELSE IF native
  THEN <<Call("generatePdf", invoice.id), Call("navigator.share", invoice.id)>>
  ELSE <<Call("generatePdf", invoice.id), Call("window.open", invoice.id)>>

shareAwaits(invoice, native) ==
  invoice.customerPhone # "" /\ ~generatePdfThrows(invoice) /\ native

handleShare(invoice, native) ==
  /\ listEnabled
  /\ shareAwaits(invoice, native) => inflight < MaxInFlight
  /\ inflight' = IF shareAwaits(invoice, native) THEN inflight + 1 ELSE inflight
  /\ event' = Event("handleShare", invoice)
  /\ calls' = shareCalls(invoice, native)
  /\ UNCHANGED <<store, invoices, filteredInvoices, invoiceToDelete, searchVehicle,
                 dateRange, phase, effectPending>>

\* How the promise of navigator.share settles: fulfilled, or rejected with the
\* named error.
ShareOutcomes == {"fulfilled", "AbortError", "NotAllowedError"}

settleCalls(outcome) == IF outcome = "fulfilled" THEN <<>> ELSE shareCatch(outcome)

\* The continuation of handleShare after await navigator.share(...).
ShareSettle(outcome) ==
  /\ inflight > 0
  /\ phase = "crashed" \/ ~effectPending
  /\ inflight' = inflight - 1
  /\ event' = Event("shareSettle", OutcomeArg(outcome))
  /\ calls' = settleCalls(outcome)
  /\ UNCHANGED <<store, invoices, filteredInvoices, invoiceToDelete, searchVehicle,
                 dateRange, phase, effectPending>>

\* ----------------------------------------------------------------- delete

\* Mutant: the trash button deletes at once, without the dialog.
RequestDeleteAtOnce(id) ==
  /\ listEnabled
  /\ store' = Stored(SelectSeq(invoices, LAMBDA invoice : invoice.id # id))
  /\ invoices' = SelectSeq(invoices, LAMBDA invoice : invoice.id # id)
  /\ filteredInvoices' = invoices'
  /\ effectPending' = TRUE
  /\ event' = Event("requestDelete", IdArg(id))
  /\ calls' = <<>>
  /\ UNCHANGED <<invoiceToDelete, searchVehicle, dateRange, phase, inflight>>

\* The trash button of a rendered invoice: setInvoiceToDelete(invoice.id)
RequestDelete(id) ==
  /\ listEnabled
  /\ invoiceToDelete' = id
  /\ event' = Event("requestDelete", IdArg(id))
  /\ calls' = <<>>
  /\ UNCHANGED <<store, invoices, filteredInvoices, searchVehicle, dateRange,
                 phase, effectPending, inflight>>

\* AlertDialogCancel (or closing the dialog): onOpenChange sets null.
CancelDelete ==
  /\ listEnabled
  /\ invoiceToDelete # NULL
  /\ invoiceToDelete' = NULL
  /\ event' = Event("cancelDelete", NoArg)
  /\ calls' = <<>>
  /\ UNCHANGED <<store, invoices, filteredInvoices, searchVehicle, dateRange,
                 phase, effectPending, inflight>>

\* Mutant: only the first invoice with the id is removed.
withoutFirstWithId(all, id) ==
  LET hits == {i \in 1..Len(all) : all[i].id = id}
  IN IF hits = {} THEN all
     ELSE LET first == CHOOSE i \in hits : \A j \in hits : i <= j
          IN SubSeq(all, 1, first - 1) \o SubSeq(all, first + 1, Len(all))

\* invoices.filter(invoice => invoice.id !== id)
withoutId(all, id) == SelectSeq(all, LAMBDA invoice : invoice.id # id)

\* Mutant: the refilter effect does not depend on invoices.
handleDeleteNoRefilter(id) ==
  LET updatedInvoices == withoutId(invoices, id)
  IN /\ store' = Stored(updatedInvoices)
     /\ invoices' = updatedInvoices
     /\ filteredInvoices' = updatedInvoices
     /\ calls' = <<Call("toast.success", "Invoice deleted successfully")>>
     /\ invoiceToDelete' = NULL
     /\ phase' = phaseAfterRender(updatedInvoices)
     /\ effectPending' = FALSE

\* Mutant: the new collection is not written to localStorage.
handleDeleteNotPersisted(id) ==
  LET updatedInvoices == withoutId(invoices, id)
  IN /\ store' = store
     /\ invoices' = updatedInvoices
     /\ filteredInvoices' = updatedInvoices
     /\ calls' = <<Call("toast.success", "Invoice deleted successfully")>>
     /\ invoiceToDelete' = NULL
     /\ phase' = phaseAfterRender(updatedInvoices)
     /\ effectPending' = TRUE

handleDelete(id) ==
  LET updatedInvoices == withoutId(invoices, id)
  IN /\ store' = Stored(updatedInvoices)
     /\ invoices' = updatedInvoices
     /\ filteredInvoices' = updatedInvoices
     /\ calls' = <<Call("toast.success", "Invoice deleted successfully")>>
     /\ invoiceToDelete' = NULL
     /\ phase' = phaseAfterRender(updatedInvoices)
     /\ effectPending' = TRUE

\* AlertDialogAction: invoiceToDelete && handleDelete(invoiceToDelete)
ConfirmDelete ==
  /\ listEnabled
  /\ invoiceToDelete # NULL
  /\ handleDelete(invoiceToDelete)
  /\ event' = Event("confirmDelete", IdArg(invoiceToDelete))
  /\ UNCHANGED <<searchVehicle, dateRange, inflight>>

\* ------------------------------------------------------------------- next

Rendered == {filteredInvoices[i] : i \in 1..Len(filteredInvoices)}

Next ==
  \/ Mount
  \/ Refilter
  \/ \E value \in SearchInputs : SetSearchVehicle(value)
  \/ \E range \in DateRanges : SetDateRange(range)
  \/ resetFilters
  \/ SearchClick
  \/ \E invoice \in Rendered : handleEdit(invoice.id)
  \/ \E invoice \in Rendered : downloadInvoice(invoice)
  \/ saveAllInvoicesAsPDF
  \/ \E invoice \in Rendered, native \in BOOLEAN : handleShare(invoice, native)
  \/ \E outcome \in ShareOutcomes : ShareSettle(outcome)
  \/ \E invoice \in Rendered : RequestDelete(invoice.id)
  \/ CancelDelete
  \/ ConfirmDelete

Spec == Init /\ [][Next]_vars

\* ---------------------------------------------- the filter as a pure function

\* Any collection under any criteria, with the refilter effect about to run.
FilterInit ==
  /\ invoices \in SeqsUpTo(InvoiceUniverse, MaxInvoices)
  /\ store = Stored(invoices)
  /\ filteredInvoices = <<>>
  /\ invoiceToDelete = NULL
  /\ searchVehicle \in SearchInputs
  /\ dateRange \in DateRanges
  /\ phase = "mounted"
  /\ effectPending = TRUE
  /\ inflight = 0
  /\ event = Event("render", NoArg)
  /\ calls = <<>>

FilterNext == Refilter

FilterSpec == FilterInit /\ [][FilterNext]_vars

\* ----------------------------------------------------- vocabulary of the claims

IsSpace(c) == c = " "

\* s without its leading and trailing spaces, by the positions of its first and
\* last non-space characters.
Trimmed(s) ==
  LET solid == {i \in 1..Len(s) : ~IsSpace(s[i])}
  IN IF solid = {} THEN <<>>
     ELSE SubSeq(s, CHOOSE a \in solid : \A i \in solid : a <= i,
                    CHOOSE b \in solid : \A i \in solid : b >= i)

SameLetter(x, y) == x = y \/ {x, y} \in {{"K", "k"}, {"A", "a"}}

ContainsIgnoringCase(text, part) ==
  \E k \in 0..Len(text) :
    /\ k + Len(part) <= Len(text)
    /\ \A j \in 1..Len(part) : SameLetter(text[k + j], part[j])

VehicleActive(search) == Trimmed(search) # <<>>
DateActive(range) == range.from.kind = "date" /\ range.to.kind = "date"

Unparsable(invoice) == parseInvoiceDate(invoice.date).kind # "date"

PassesCriteria(invoice, search, range) ==
  /\ VehicleActive(search) =>
       ContainsIgnoringCase(invoice.vehicleNumber, Trimmed(search))
  /\ DateActive(range) =>
       /\ ~Unparsable(invoice)
       /\ range.from.time <= parseInvoiceDate(invoice.date).time
       /\ parseInvoiceDate(invoice.date).time <= range.to.time

ExpectedView(all, search, range) ==
  SelectSeq(all, LAMBDA invoice : PassesCriteria(invoice, search, range))

CountCalls(cs, fn) == Cardinality({i \in 1..Len(cs) : cs[i].fn = fn})

\* ------------------------------------------------------------------- claims

RECURSIVE Others(_, _)
Others(all, id) ==
  IF all = <<>> THEN <<>>
  ELSE IF Head(all).id = id THEN Others(Tail(all), id)
  ELSE <<Head(all)>> \o Others(Tail(all), id)

HasId(all, id) == \E i \in 1..Len(all) : all[i].id = id

\* C2: a confirmed Delete(X) leaves a master collection with no invoice of id X
\* and every other invoice unchanged and in order, writes exactly that
\* collection to the store (the collection as it was when no invoice has id X),
\* and reports "deleted" exactly once.
C2_ConfirmedDelete ==
  [][event'.op = "confirmDelete" =>
       /\ invoiceToDelete # NULL
       /\ event'.arg = IdArg(invoiceToDelete)
       /\ ~HasId(invoices', invoiceToDelete)
       /\ invoices' = Others(invoices, invoiceToDelete)
       /\ store' = Stored(invoices')
       /\ ~HasId(invoices, invoiceToDelete) =>
            (invoices' = invoices /\ store' = Stored(invoices))
       /\ CountCalls(calls', "toast.success") = 1
       /\ \A i \in 1..Len(calls') :
            calls'[i].fn = "toast.success" =>
              calls'[i].arg = "Invoice deleted successfully"]_vars

\* A confirmed delete of id "1" has run and left other invoices behind.
C2_Witness ==
  /\ event = Event("confirmDelete", IdArg("1"))
  /\ invoices # <<>>
  /\ ~HasId(invoices, "1")
  /\ store = Stored(invoices)

\* C3: once the refilter triggered by the last change has run, the filtered
\* view is the filter of the master collection under the current criteria;
\* so after a confirmed delete under an active filter the view holds no
\* invoice that fails the criteria.
C3_ViewFollowsCriteria ==
  (phase # "initial" /\ ~effectPending) =>
    /\ filteredInvoices = ExpectedView(invoices, searchVehicle, dateRange)
    /\ \A i \in 1..Len(filteredInvoices) :
         PassesCriteria(filteredInvoices[i], searchVehicle, dateRange)

\* The refilter after a confirmed delete has run under an active filter that
\* hides part of what is left.
C3_Witness ==
  /\ event = Event("refilter", TriggerArg("confirmDelete"))
  /\ ~effectPending
  /\ VehicleActive(searchVehicle) \/ DateActive(dateRange)
  /\ Len(filteredInvoices) < Len(invoices)

\* C4: after Load the master and stored collections change only in a Confirm
\* step taken while a delete of that id is pending; a pending id is set only by
\* a Request for it, which changes neither collection; Cancel clears the
\* pending delete and leaves master, store and view alone; after Confirm no
\* delete is pending.
C4_TwoStepDelete ==
  [][/\ (phase # "initial" /\ (invoices' # invoices \/ store' # store)) =>
          /\ event'.op = "confirmDelete"
          /\ invoiceToDelete # NULL
          /\ event'.arg = IdArg(invoiceToDelete)
          /\ invoices' = Others(invoices, invoiceToDelete)
     /\ (invoiceToDelete' # NULL /\ invoiceToDelete' # invoiceToDelete) =>
          event' = Event("requestDelete", IdArg(invoiceToDelete'))
     /\ event'.op = "requestDelete" =>
          /\ invoiceToDelete' = event'.arg.id
          /\ UNCHANGED <<invoices, store>>
     /\ event'.op = "cancelDelete" =>
          /\ invoiceToDelete # NULL
          /\ invoiceToDelete' = NULL
          /\ UNCHANGED <<invoices, store, filteredInvoices>>
     /\ event'.op = "confirmDelete" => invoiceToDelete' = NULL]_vars

\* A delete was requested and then cancelled, with the invoice still there.
C4_Witness ==
  /\ event.op = "cancelDelete"
  /\ invoiceToDelete = NULL
  /\ invoices # <<>>
  /\ store = Stored(invoices)

\* C5: an invoice whose date cannot be parsed never crashes the view.
C5_UnparsableDateNeverCrashes ==
  (\E i \in 1..Len(invoices) : Unparsable(invoices[i])) => phase # "crashed"

\* C6: Share of an invoice with an empty customerPhone reports the validation
\* failure, calls neither the document builder nor the native share nor the
\* messaging link, and changes no state.
C6_ShareWithoutPhone ==
  [][(event'.op = "handleShare" /\ event'.arg.customerPhone = "") =>
       /\ calls' = <<Call("toast.error", "Customer phone number is missing.")>>
       /\ CountCalls(calls', "generatePdf") = 0
       /\ CountCalls(calls', "navigator.share") = 0
       /\ CountCalls(calls', "window.open") = 0
       /\ UNCHANGED <<invoices, filteredInvoices, searchVehicle, dateRange,
                      invoiceToDelete, store, inflight>>]_vars

\* Share was asked for a rendered invoice that has no phone number.
C6_Witness ==
  /\ event.op = "handleShare"
  /\ event.arg.customerPhone = ""
  /\ CountCalls(calls, "toast.error") = 1

\* C7: a share with a phone number shows no failure notice when the native
\* share ends by cancellation (or succeeds), exactly one when building the
\* document or sharing fails otherwise, and neither starting nor settling a
\* share changes the master or the stored collection, whatever ran in between.
C7_ShareOutcomes ==
  [][/\ (event'.op = "shareSettle" /\ event'.arg.outcome \in {"AbortError", "fulfilled"}) =>
          CountCalls(calls', "toast.error") = 0
     /\ (event'.op = "shareSettle" /\ event'.arg.outcome \notin {"AbortError", "fulfilled"}) =>
          CountCalls(calls', "toast.error") = 1
     /\ (event'.op = "handleShare" /\ event'.arg.customerPhone # "") =>
          CountCalls(calls', "toast.error") =
            (IF Unparsable(event'.arg) THEN 1 ELSE 0)
     /\ event'.op \in {"handleShare", "shareSettle"} =>
          UNCHANGED <<invoices, store>>]_vars

\* A native share ended by cancellation while another was still in flight.
C7_Witness ==
  /\ event = Event("shareSettle", OutcomeArg("AbortError"))
  /\ CountCalls(calls, "toast.error") = 0
  /\ inflight > 0
  /\ invoices # <<>>

\* C8: ResetFilters empties the vehicle substring and the date range and makes
\* the view the master collection, at once and after the refilter it triggers,
\* and changes neither the master collection nor the store.
C8_ResetFilters ==
  [][/\ event'.op = "resetFilters" => UNCHANGED <<invoices, store>>
     /\ (event'.op = "resetFilters" \/ event' = Event("refilter", TriggerArg("resetFilters"))) =>
          /\ searchVehicle' = <<>>
          /\ dateRange'.from = UNDEFINED /\ dateRange'.to = UNDEFINED
          /\ filteredInvoices' = invoices']_vars

\* The refilter triggered by a reset has run on a non-empty collection.
C8_Witness ==
  /\ event = Event("refilter", TriggerArg("resetFilters"))
  /\ invoices # <<>>
  /\ filteredInvoices = invoices

StateOfList == <<invoices, filteredInvoices, searchVehicle, dateRange,
                 invoiceToDelete, store>>

\* C9: Export and ExportAll change no state; ExportAll builds and saves one
\* document per invoice of the view, in view order, each saved before the
\* next is built.
C9_ExportFrame ==
  [][/\ event'.op \in {"downloadInvoice", "saveAllInvoicesAsPDF"} =>
          UNCHANGED StateOfList
     /\ event'.op = "downloadInvoice" =>
          calls' = <<Call("generatePdf", event'.arg.id), Call("save", event'.arg.id)>>
     /\ event'.op = "saveAllInvoicesAsPDF" =>
          /\ Len(calls') = 2 * Len(filteredInvoices) + 1
          /\ \A k \in 1..Len(filteredInvoices) :
               /\ calls'[2 * k - 1] = Call("generatePdf", filteredInvoices[k].id)
               /\ calls'[2 * k] = Call("save", filteredInvoices[k].id)
          /\ calls'[Len(calls')].fn = "toast.success"]_vars

\* ExportAll ran on a view of two or more invoices that hides part of the
\* master collection.
C9_Witness ==
  /\ event.op = "saveAllInvoicesAsPDF"
  /\ Len(filteredInvoices) >= 2
  /\ Len(filteredInvoices) < Len(invoices)
  /\ CountCalls(calls, "save") = Len(filteredInvoices)

RECURSIVE IsSubsequence(_, _)
IsSubsequence(part, all) ==
  IF part = <<>> THEN TRUE
  ELSE IF all = <<>> THEN FALSE
  ELSE IF Head(part) = Head(all) THEN IsSubsequence(Tail(part), Tail(all))
  ELSE IsSubsequence(part, Tail(all))

StoredCollection == IF store.present THEN store.value ELSE <<>>

\* C10: after Load the stored collection (absent counting as empty) equals the
\* master collection, and the view is a subsequence of the master collection.
C10_StoreMirrorsMaster ==
  phase # "initial" =>
    /\ StoredCollection = invoices
    /\ IsSubsequence(filteredInvoices, invoices)

\* A delete has been confirmed and refiltered, and a filter hides part of what
\* is left.
C10_Witness ==
  /\ event = Event("refilter", TriggerArg("confirmDelete"))
  /\ invoices # <<>>
  /\ Len(filteredInvoices) < Len(invoices)
  /\ StoredCollection = invoices

====
